---- MODULE Spec2Model ----
(***************************************************************************)
(* A model of the GGRS demo: the deterministic ship simulation             *)
(* (src/src/ex_game.rs) and the demo loop that drives it from a rollback   *)
(* session (src/src/main.rs).                                              *)
(*                                                                         *)
(* Numbers.  The program computes in f32.  The model computes in fixed     *)
(* point: lengths and speeds in thousandths of a unit, angles in           *)
(* thousandths of a radian, every product and quotient rounded to the      *)
(* nearest thousandth (half away from zero, symmetric in the sign as f32   *)
(* rounding is).  cos and sin are Bhaskara's rational approximation.       *)
(***************************************************************************)
EXTENDS Integers, Sequences, FiniteSets, TLC

(***************************************************************************)
(* Program constants                                                       *)
(***************************************************************************)
\* ggrs::NULL_FRAME, the frame of an input that has not arrived
NULL_FRAME == -1
\* ex_game.rs:10
CHECKSUM_PERIOD == 100
\* ex_game.rs:14, ex_game.rs:15 (in thousandths)
ARENA_HEIGHT == 800000
ARENA_WIDTH == 800000
\* ex_game.rs:17-20
INPUT_UP == 1
INPUT_DOWN == 2
INPUT_LEFT == 4
INPUT_RIGHT == 8
\* ex_game.rs:22, 15.0 / 60 = 0.25
MOVEMENT_SPEED == 250
\* ex_game.rs:23, 2.5 / 60 = 0.0416..
ROTATION_SPEED == 42
\* ex_game.rs:24
MAX_SPEED == 7000
\* ex_game.rs:25, FRICTION = FRICTION_NUM / FRICTION_DEN = 0.98
FRICTION_NUM == 98
FRICTION_DEN == 100
\* std::f32::consts::PI and 2.0 * PI, in thousandths of a radian
PI == 3142
TWO_PI == 6284
\* the fixed point scale: 1.0 is ONE
ONE == 1000
\* ex_game.rs:95, the most players a Game accepts
MAX_NUM_PLAYERS == 4
\* ex_game.rs:272, State.frame is an i32: the greatest and the least i32
I32_MAX == 2147483647
I32_MIN == -I32_MAX - 1
\* main.rs:12
NUM_PLAYERS == 2
\* main.rs:14, FPS: a frame lasts 1/FPS; time is counted in units of
\* 1/(10 * FPS) second, which makes the dilated frame (1/FPS) * 1.1 a whole
\* number of units
FRAME_TIME == 10
SLOW_FRAME_TIME == 11

(***************************************************************************)
(* Bounds of the model                                                     *)
(***************************************************************************)
\* SpecSim: frames advanced from State::new
MaxSimFrame == 50
\* SpecKeys: frames advanced from State::new
MaxKeyFrames == 2
\* SpecOverflow: frames advanced before the frame counter is at its maximum
OverflowRun == 1
\* SpecDispatch: frames the game has idled through before the requests start
IdleFrames == 98
\* SpecDispatch: frames a game may be ahead of the frame it started at
MaxAdvance == 2
\* Spec: the time next_frame() takes is ShortTick or LongTick
ShortTick == 6
LongTick == 17
\* Spec: the clock stops at MaxTime
MaxTime == 35
\* Spec: events the session reports in one call of run_game
MaxEvents == 2

(***************************************************************************)
(* Fixed point arithmetic                                                  *)
(***************************************************************************)
Abs(a) == IF a < 0 THEN -a ELSE a

\* a / b rounded to the nearest integer, half away from zero (b > 0)
RDiv(a, b) == IF a >= 0 THEN (2 * a + b) \div (2 * b)
              ELSE -((2 * (-a) + b) \div (2 * b))

\* the product of two fixed point numbers
FMul(a, b) == RDiv(a * b, ONE)

Max(a, b) == IF a >= b THEN a ELSE b
Min(a, b) == IF a <= b THEN a ELSE b

RECURSIVE sqrt_iter(_, _)
sqrt_iter(n, x) == LET y == (x + n \div x) \div 2
                   IN  IF y >= x THEN x ELSE sqrt_iter(n, y)

\* f32::sqrt of a sum of two squares of fixed point numbers: the integer
\* square root is already in thousandths
sqrt(n) == IF n = 0 THEN 0 ELSE sqrt_iter(n, 16384)

\* sin on [0, PI]: 16 x (PI - x) / (5 PI^2 - 4 x (PI - x))
sin_half(x) == LET p == x * (PI - x)
               IN  RDiv(16 * ONE * (p \div 100), (5 * PI * PI - 4 * p) \div 100)

\* f32::sin and f32::cos of an angle in [0, TWO_PI)
sin(x) == IF x <= PI THEN sin_half(x) ELSE -sin_half(x - PI)
cos(x) == sin((x + PI \div 2) % TWO_PI)

\* whether bit `mask` of the u8 `input` is set: input & mask != 0
Down(input, mask) == (input \div mask) % 2 = 1

(***************************************************************************)
(* ex_game.rs: State                                                       *)
(***************************************************************************)
\* the player handles of a game of n players
Handles(n) == 0 .. (n - 1)

\* State::new
State_new(num_players) ==
    LET r == ARENA_WIDTH \div 4
        rot(i) == RDiv(i * TWO_PI, num_players)
    IN  [ frame       |-> 0,
          num_players |-> num_players,
          positions   |-> [i \in Handles(num_players) |->
                             << ARENA_WIDTH \div 2 + FMul(r, cos(rot(i))),
                                ARENA_HEIGHT \div 2 + FMul(r, sin(rot(i))) >>],
          velocities  |-> [i \in Handles(num_players) |-> << 0, 0 >>],
          rotations   |-> [i \in Handles(num_players) |-> (rot(i) + PI) % TWO_PI] ]

\* faulty variant of resolve_input: the input is used as it came, the
\* blank of a missing input included
resolve_input_raw(player_input) == player_input.inp

\* the input advance uses for a player: an input that has not arrived
\* (frame == NULL_FRAME) is replaced by the literal 4
resolve_input(player_input) ==
    IF player_input.frame = NULL_FRAME THEN 4 ELSE player_input.inp

\* slow down
slow_down(vel) == << RDiv(vel[1] * FRICTION_NUM, FRICTION_DEN),
                     RDiv(vel[2] * FRICTION_NUM, FRICTION_DEN) >>

\* faulty variant of thrust: with both keys down, up wins
thrust_up_wins(vel, rot, input) ==
    LET ax == FMul(MOVEMENT_SPEED, cos(rot))
        ay == FMul(MOVEMENT_SPEED, sin(rot))
    IN  IF Down(input, INPUT_UP) THEN << vel[1] + ax, vel[2] + ay >>
        ELSE IF Down(input, INPUT_DOWN) THEN << vel[1] - ax, vel[2] - ay >>
        ELSE vel

\* thrust and break: the velocity after the two conditionals
thrust(vel, rot, input) ==
    LET ax == FMul(MOVEMENT_SPEED, cos(rot))
        ay == FMul(MOVEMENT_SPEED, sin(rot))
        v1 == IF Down(input, INPUT_UP) /\ ~Down(input, INPUT_DOWN)
              THEN << vel[1] + ax, vel[2] + ay >> ELSE vel
    IN  IF ~Down(input, INPUT_UP) /\ Down(input, INPUT_DOWN)
        THEN << v1[1] - ax, v1[2] - ay >> ELSE v1

\* turn left and turn right: the rotation after the two conditionals
turn(rot, input) ==
    LET r1 == IF Down(input, INPUT_LEFT) /\ ~Down(input, INPUT_RIGHT)
              THEN (rot - ROTATION_SPEED) % TWO_PI ELSE rot
    IN  IF ~Down(input, INPUT_LEFT) /\ Down(input, INPUT_RIGHT)
        THEN (r1 + ROTATION_SPEED) % TWO_PI ELSE r1

\* limit speed
limit_speed(vel) ==
    LET magnitude == sqrt(vel[1] * vel[1] + vel[2] * vel[2])
    IN  IF magnitude > MAX_SPEED
        THEN << RDiv(vel[1] * MAX_SPEED, magnitude),
                RDiv(vel[2] * MAX_SPEED, magnitude) >>
        ELSE vel

\* faulty variant of constrain: the upper borders are not enforced
constrain_lower(pos) == << Max(pos[1], 0), Max(pos[2], 0) >>

\* constrain players to canvas borders
constrain(pos) == << Min(Max(pos[1], 0), ARENA_WIDTH),
                     Min(Max(pos[2], 0), ARENA_HEIGHT) >>

\* a player that a border stops: the velocity stored has no component
\* along an axis on which the position was constrained
advance_player_stopped(s, i, player_input) ==
    LET input == resolve_input(player_input)
        rot   == s.rotations[i]
        vel   == limit_speed(thrust(slow_down(s.velocities[i]), rot, input))
        free  == << s.positions[i][1] + vel[1], s.positions[i][2] + vel[2] >>
        pos   == constrain(free)
    IN  [ pos |-> pos,
          vel |-> << IF pos[1] = free[1] THEN vel[1] ELSE 0,
                     IF pos[2] = free[2] THEN vel[2] ELSE 0 >>,
          rot |-> turn(rot, input) ]

\* one iteration of the loop of State::advance: player i's new position,
\* velocity and rotation
advance_player(s, i, player_input) ==
    LET input == resolve_input(player_input)
        rot   == s.rotations[i]
        vel   == limit_speed(thrust(slow_down(s.velocities[i]), rot, input))
    IN  [ pos |-> constrain(<< s.positions[i][1] + vel[1],
                               s.positions[i][2] + vel[2] >>),
          vel |-> vel,
          rot |-> turn(rot, input) ]

\* faulty variant of advance: the frame counter wraps at CHECKSUM_PERIOD
advance_wrapping(s, inputs) ==
    LET new == [i \in Handles(s.num_players) |-> advance_player(s, i, inputs[i])]
    IN  [ frame       |-> (s.frame + 1) % CHECKSUM_PERIOD,
          num_players |-> s.num_players,
          positions   |-> [i \in Handles(s.num_players) |-> new[i].pos],
          velocities  |-> [i \in Handles(s.num_players) |-> new[i].vel],
          rotations   |-> [i \in Handles(s.num_players) |-> new[i].rot] ]

\* State::advance, self.frame += 1 on an i32: the addition overflows
advance_overflows(s) == s.frame = I32_MAX

\* State::advance; where the addition overflows, the state a build without
\* overflow checks computes: the frame wraps to the least i32
advance(s, inputs) ==
    LET new == [i \in Handles(s.num_players) |-> advance_player(s, i, inputs[i])]
    IN  [ frame       |-> IF advance_overflows(s) THEN I32_MIN ELSE s.frame + 1,
          num_players |-> s.num_players,
          positions   |-> [i \in Handles(s.num_players) |-> new[i].pos],
          velocities  |-> [i \in Handles(s.num_players) |-> new[i].vel],
          rotations   |-> [i \in Handles(s.num_players) |-> new[i].rot] ]

(***************************************************************************)
(* ex_game.rs: the checksum of the serialized state                        *)
(***************************************************************************)
\* the little-endian bytes of an integer of `width` bytes (two's complement)
RECURSIVE le_bytes(_, _)
le_bytes(n, width) ==
    IF width = 0 THEN << >> ELSE << n % 256 >> \o le_bytes(n \div 256, width - 1)

\* a Vec<(f32, f32)> from element i on
RECURSIVE pairs_bytes(_, _, _)
pairs_bytes(vec, i, n) ==
    IF i = n THEN << >>
    ELSE le_bytes(vec[i][1], 4) \o le_bytes(vec[i][2], 4) \o pairs_bytes(vec, i + 1, n)

\* a Vec<f32> from element i on
RECURSIVE floats_bytes(_, _, _)
floats_bytes(vec, i, n) ==
    IF i = n THEN << >> ELSE le_bytes(vec[i], 4) \o floats_bytes(vec, i + 1, n)

\* bincode::serialize(&State): frame (i32), num_players (u64), then each Vec
\* as its length (u64) and its elements; an f32 is written as the 4 bytes
\* of its fixed point value
serialize(s) ==
    LET n == s.num_players
    IN  le_bytes(s.frame, 4) \o le_bytes(n, 8)
        \o le_bytes(n, 8) \o pairs_bytes(s.positions, 0, n)
        \o le_bytes(n, 8) \o pairs_bytes(s.velocities, 0, n)
        \o le_bytes(n, 8) \o floats_bytes(s.rotations, 0, n)

\* the loop of fletcher16 run over data[lo .. hi] from sum1 = sum2 = 0:
\* << sum1, sum2 >>.  The loop over a slice A followed by a slice B leaves
\* sum1 = A.sum1 + B.sum1 and sum2 = A.sum2 + Len(B) * A.sum1 + B.sum2
\* (mod 255), which lets the recursion halve the slice instead of going
\* one level deep per byte.
RECURSIVE fletcher_sums(_, _, _)
fletcher_sums(data, lo, hi) ==
    IF lo > hi THEN << 0, 0 >>
    ELSE IF lo = hi THEN << data[lo] % 255, data[lo] % 255 >>
    ELSE LET mid == (lo + hi) \div 2
             a   == fletcher_sums(data, lo, mid)
             b   == fletcher_sums(data, mid + 1, hi)
         IN  << (a[1] + b[1]) % 255,
                (a[2] + (hi - mid) * a[1] + b[2]) % 255 >>

\* fletcher16: (sum2 << 8) | sum1
fletcher16(data) ==
    LET sums == fletcher_sums(data, 1, Len(data))
    IN  sums[2] * 256 + sums[1]

\* the checksum save_game_state and advance_frame compute
checksum_of(s) == fletcher16(serialize(s))

(***************************************************************************)
(* State                                                                   *)
(***************************************************************************)
VARIABLES
    \* Game (ex_game.rs:85-91); num_players is game_state.num_players
    game_state,         \* State
    last_checksum,      \* << frame, checksum >>
    periodic_checksum,  \* << frame, checksum >>
    connection_info,    \* per handle: [status, stats]
    \* the session's GameStateCells: per cell [frame, data, checksum]
    cells,
    \* handle_requests: the request of the current iteration of its loop
    request,
    \* whether the process has panicked
    panicked,
    \* GGRSDemo (main.rs:22-30); game is the Game above
    state,              \* DemoState
    socket,             \* Option: [connected_peers]
    session,            \* Option: [players, current_state]
    last_update,        \* Instant
    accumulator,        \* Duration
    \* Game.frame_skipped, the field main.rs:194-196 assign
    frame_skipped,
    \* run_game: fps_delta, and the requests handle_requests has yet to handle
    fps_delta,
    requests,
    \* run_game: delta, the time accumulated by the call (main.rs:174)
    delta,
    \* run_game: per remote handle, what sess.network_stats(handle) returned
    \* in the call (main.rs:160)
    network_stats,
    \* run_game: what sess.advance_frame() returned in the iteration of the
    \* while loop (main.rs:191)
    advance_result,
    \* the calls made on the executor and on the session, in order, by the
    \* call of run_connecting or run_game under way or last ended
    calls,
    \* where the process is: at the top of the loop of run ("run"), at the
    \* test of the while loop of run_game ("while"), in the loop of
    \* handle_requests ("requests")
    pc,
    \* the clock: Instant::now()
    now

gameVars == << game_state, last_checksum, periodic_checksum, connection_info >>
demoVars == << state, socket, session, last_update, accumulator, frame_skipped,
               fps_delta, requests, delta, network_stats, advance_result, calls,
               pc, now >>
vars == << game_state, last_checksum, periodic_checksum, connection_info,
           cells, request, panicked, state, socket, session, last_update,
           accumulator, frame_skipped, fps_delta, requests, delta,
           network_stats, advance_result, calls, pc, now >>

\* the cells of the session
Cells == {0, 1}

\* Option<T>: None, and Some(x) with its value unwrap(o)
None == << >>
Some(x) == << x >>
unwrap(o) == o[1]

\* GameState::default(): a cell nothing was saved to
EmptyCell == [frame |-> NULL_FRAME, data |-> None, checksum |-> 0]

\* ConnectionInfo::default()
ConnectionInfo_default == [status |-> "Synchronizing", stats |-> None]

(***************************************************************************)
(* ex_game.rs: Game                                                        *)
(***************************************************************************)
\* Game::new: the values of the four fields (num_players <= 4 is asserted)
Game_new(num_players) ==
    [ game_state        |-> State_new(num_players),
      last_checksum     |-> << NULL_FRAME, 0 >>,
      periodic_checksum |-> << NULL_FRAME, 0 >>,
      connection_info   |-> [h \in Handles(num_players) |-> ConnectionInfo_default] ]

\* faulty variant of set_connection_status: the status is set for every
\* player
set_status_of_all(info, handles, status) ==
    [h \in DOMAIN info |-> [info[h] EXCEPT !.status = status]]

\* Game::set_connection_status: self.connection_info after the call, from
\* self.connection_info before it
set_connection_status(info, handles, status) ==
    [h \in DOMAIN info |->
        IF h \in handles THEN [info[h] EXCEPT !.status = status] ELSE info[h]]

\* faulty variant of save_game_state: the frame is not asserted
save_unchecked(cell, frame) ==
    /\ cells' = [cells EXCEPT ![cell] =
                   [frame    |-> frame,
                    data     |-> Some(game_state),
                    checksum |-> checksum_of(game_state)]]
    /\ UNCHANGED << gameVars, panicked >>

\* Game::save_game_state
save_game_state(cell, frame) ==
    IF game_state.frame # frame
    THEN \* assert_eq! fails
         /\ panicked' = TRUE
         /\ UNCHANGED << gameVars, cells >>
    ELSE /\ cells' = [cells EXCEPT ![cell] =
                        [frame    |-> frame,
                         data     |-> Some(game_state),
                         checksum |-> checksum_of(game_state)]]
         /\ UNCHANGED << gameVars, panicked >>

\* faulty variant of load_game_state: the players are restored, the frame
\* counter is not
load_keep_frame(cell) ==
    IF cells[cell].data = None
    THEN /\ panicked' = TRUE
         /\ UNCHANGED << gameVars, cells >>
    ELSE /\ game_state' = [unwrap(cells[cell].data) EXCEPT !.frame = game_state.frame]
         /\ UNCHANGED << last_checksum, periodic_checksum, connection_info,
                         cells, panicked >>

\* faulty variant of load_game_state: an empty cell is skipped silently
load_lenient(cell) ==
    /\ game_state' = IF cells[cell].data = None THEN game_state
                     ELSE unwrap(cells[cell].data)
    /\ UNCHANGED << last_checksum, periodic_checksum, connection_info,
                    cells, panicked >>

\* a load that takes the latest checksum record back to the state loaded
load_with_records(cell) ==
    IF cells[cell].data = None
    THEN /\ panicked' = TRUE
         /\ UNCHANGED << gameVars, cells >>
    ELSE /\ game_state' = unwrap(cells[cell].data)
         /\ last_checksum' = << cells[cell].frame, cells[cell].checksum >>
         /\ UNCHANGED << periodic_checksum, connection_info, cells, panicked >>

\* Game::load_game_state
load_game_state(cell) ==
    IF cells[cell].data = None
    THEN \* expect("No data found.") fails
         /\ panicked' = TRUE
         /\ UNCHANGED << gameVars, cells >>
    ELSE /\ game_state' = unwrap(cells[cell].data)
         /\ UNCHANGED << last_checksum, periodic_checksum, connection_info,
                         cells, panicked >>

\* faulty variant of advance_frame: the period is tested on the frame
\* before the advance
advance_frame_early(inputs) ==
    LET new_state == advance(game_state, inputs)
        checksum  == checksum_of(new_state)
    IN  /\ game_state' = new_state
        /\ last_checksum' = << new_state.frame, checksum >>
        /\ periodic_checksum' = IF game_state.frame % CHECKSUM_PERIOD = 0
                                THEN << new_state.frame, checksum >>
                                ELSE periodic_checksum
        /\ UNCHANGED << connection_info, cells, panicked >>

\* Game::advance_frame; where the addition of State::advance overflows, a
\* build with overflow checks panics there, and one without goes on with
\* the wrapped frame
advance_frame(inputs) ==
    \/ /\ advance_overflows(game_state)
       /\ panicked' = TRUE
       /\ UNCHANGED << gameVars, cells >>
    \/ LET new_state == advance(game_state, inputs)
           checksum  == checksum_of(new_state)
       IN  /\ game_state' = new_state
           /\ last_checksum' = << new_state.frame, checksum >>
           /\ periodic_checksum' = IF new_state.frame % CHECKSUM_PERIOD = 0
                                   THEN << new_state.frame, checksum >>
                                   ELSE periodic_checksum
           /\ UNCHANGED << connection_info, cells, panicked >>

\* one iteration of the loop of Game::handle_requests
handle_request(req) ==
    /\ ~panicked
    /\ request' = req
    /\ CASE req.type = "LoadGameState" -> load_game_state(req.cell)
         [] req.type = "SaveGameState" -> save_game_state(req.cell, req.frame)
         [] req.type = "AdvanceFrame"  -> advance_frame(req.inputs)

(***************************************************************************)
(* The session's requests                                                  *)
(***************************************************************************)
\* the u8 values tried as inputs: every combination of the four keys, and
\* one with bits outside the four set as well
InputValues == (0 .. 15) \cup {21}

\* PlayerInput<Input> of the frame being advanced: an input that arrived,
\* or the blank input of a player whose input did not
PlayerInputs(frame) ==
    [frame : {frame}, inp : InputValues] \cup {[frame |-> NULL_FRAME, inp |-> 0]}

AdvanceFrame(inputs) == [type |-> "AdvanceFrame", inputs |-> inputs]
SaveGameState(cell, frame) == [type |-> "SaveGameState", cell |-> cell, frame |-> frame]
LoadGameState(cell, frame) == [type |-> "LoadGameState", cell |-> cell, frame |-> frame]
NoRequest == [type |-> "None"]

\* the inputs of the AdvanceFrame request before, for the frame being
\* advanced now: every player holds the same keys
Sustained(frame) ==
    [i \in DOMAIN request.inputs |->
        IF request.inputs[i].frame = NULL_FRAME THEN request.inputs[i]
        ELSE [frame |-> frame, inp |-> request.inputs[i].inp]]

(***************************************************************************)
(* SpecSim: Games of 1..MAX_NUM_PLAYERS players advanced MaxSimFrame       *)
(* frames from Game::new.  All players are given the same input, and hold  *)
(* it throughout: long runs, into the walls.                               *)
(***************************************************************************)
\* GGRSDemo::new: the fields other than game, and the locals of run_game
\* before its first call; the clock starts at 0
GGRSDemo_new ==
    /\ state = "Lobby"
    /\ socket = None
    /\ session = None
    /\ last_update = 0
    /\ accumulator = 0
    /\ fps_delta = 0
    /\ requests = << >>
    /\ delta = 0
    /\ network_stats = << >>
    /\ advance_result = "None"
    /\ calls = << >>
    /\ pc = "run"
    /\ now = 0

\* a process whose Game is `game`, and whose session has saved nothing;
\* frame_skipped is left open: Game::new as given does not initialise it
InitFields(game) ==
    /\ game_state = game.game_state
    /\ last_checksum = game.last_checksum
    /\ periodic_checksum = game.periodic_checksum
    /\ connection_info = game.connection_info
    /\ cells = [c \in Cells |-> EmptyCell]
    /\ request = NoRequest
    /\ panicked = FALSE
    /\ GGRSDemo_new

\* the same, in a process that has not skipped a frame
InitGame(game) ==
    /\ InitFields(game)
    /\ frame_skipped = FALSE

InitSim == \E n \in 1 .. MAX_NUM_PLAYERS : InitGame(Game_new(n))

\* the input vectors that give every player the same input
SameInputs(n, frame) ==
    { [i \in Handles(n) |-> input] : input \in PlayerInputs(frame) }

SimAdvance ==
    /\ game_state.frame < MaxSimFrame
    /\ \E inputs \in IF request.type = "AdvanceFrame"
                     THEN {Sustained(game_state.frame)}
                     ELSE SameInputs(game_state.num_players, game_state.frame) :
          handle_request(AdvanceFrame(inputs))
    /\ UNCHANGED demoVars

NextSim == SimAdvance

SpecSim == InitSim /\ [][NextSim]_vars

(***************************************************************************)
(* SpecKeys: the same Games advanced MaxKeyFrames frames, the input        *)
(* chosen anew on every frame: short runs, every change of keys.           *)
(***************************************************************************)
KeysAdvance ==
    /\ game_state.frame < MaxKeyFrames
    /\ \E inputs \in SameInputs(game_state.num_players, game_state.frame) :
          handle_request(AdvanceFrame(inputs))
    /\ UNCHANGED demoVars

NextKeys == KeysAdvance

SpecKeys == InitSim /\ [][NextKeys]_vars

(***************************************************************************)
(* SpecOverflow: Games whose frame counter is OverflowRun short of the      *)
(* greatest i32, after a run with no key down, advanced past it.           *)
(***************************************************************************)
\* `game` once its frame is f, no key having been down: State::advance
\* then changes the frame alone, and Game::advance_frame the checksum
\* records
at_frame(game, f) ==
    LET s == [game.game_state EXCEPT !.frame = f]
        p == f - (f % CHECKSUM_PERIOD)
    IN  [ game_state        |-> s,
          last_checksum     |-> << f, checksum_of(s) >>,
          periodic_checksum |-> << p, checksum_of([s EXCEPT !.frame = p]) >>,
          connection_info   |-> game.connection_info ]

InitOverflow ==
    \E n \in 1 .. MAX_NUM_PLAYERS :
        \E game \in {at_frame(Game_new(n), I32_MAX - OverflowRun)} : InitGame(game)

OverflowAdvance ==
    /\ game_state.frame > 0
    /\ \E inputs \in SameInputs(game_state.num_players, game_state.frame) :
          handle_request(AdvanceFrame(inputs))
    /\ UNCHANGED demoVars

NextOverflow == OverflowAdvance

SpecOverflow == InitOverflow /\ [][NextOverflow]_vars

(***************************************************************************)
(* SpecDispatch: the Game of the demo (NUM_PLAYERS players) handling the   *)
(* requests of a session that may ask anything: saves of the current or    *)
(* of another frame, loads of any cell, advances.  The game starts new, or *)
(* after IdleFrames frames advanced with no key down.                      *)
(***************************************************************************)
\* the input of a player with no key down
NoKeys(frame) == [frame |-> frame, inp |-> 0]

\* `game` after k AdvanceFrame requests with no key down
RECURSIVE idle(_, _)
idle(game, k) ==
    IF k = 0 THEN game
    ELSE IF k = 1
    THEN LET s == advance(game.game_state,
                          [i \in Handles(game.game_state.num_players) |->
                              NoKeys(game.game_state.frame)])
             checksum == checksum_of(s)
         IN  [ game_state        |-> s,
               last_checksum     |-> << s.frame, checksum >>,
               periodic_checksum |-> IF s.frame % CHECKSUM_PERIOD = 0
                                     THEN << s.frame, checksum >>
                                     ELSE game.periodic_checksum,
               connection_info   |-> game.connection_info ]
    ELSE CHOOSE g \in { idle(half, k - k \div 2) : half \in {idle(game, k \div 2)} } : TRUE

InitDispatch ==
    \E k \in {0, IdleFrames} :
        \E game \in {idle(Game_new(NUM_PLAYERS), k)} : InitGame(game)

\* the frame the game of SpecDispatch started at
StartFrame == IF game_state.frame >= IdleFrames THEN IdleFrames ELSE 0

\* the input vectors of SpecDispatch: the remote player's input has not
\* arrived and the local player thrusts and turns right, or it has and
\* the remote player breaks and turns left
DispatchInputs(frame) ==
    { [i \in Handles(NUM_PLAYERS) |->
          IF i = 0 THEN [frame |-> frame, inp |-> INPUT_UP + INPUT_RIGHT]
          ELSE [frame |-> NULL_FRAME, inp |-> 0]],
      [i \in Handles(NUM_PLAYERS) |->
          IF i = 0 THEN [frame |-> frame, inp |-> INPUT_UP + INPUT_RIGHT]
          ELSE [frame |-> frame, inp |-> INPUT_DOWN + INPUT_LEFT]] }

DispatchSave ==
    /\ \E cell \in Cells, frame \in {game_state.frame, game_state.frame + 1} :
          handle_request(SaveGameState(cell, frame))
    /\ UNCHANGED demoVars

DispatchLoad ==
    /\ \E cell \in Cells :
          \E frame \in {game_state.frame, cells[cell].frame} \ {NULL_FRAME} :
              handle_request(LoadGameState(cell, frame))
    /\ UNCHANGED demoVars

DispatchAdvance ==
    /\ game_state.frame - StartFrame < MaxAdvance
    /\ \E inputs \in DispatchInputs(game_state.frame) :
          handle_request(AdvanceFrame(inputs))
    /\ UNCHANGED demoVars

NextDispatch == DispatchSave \/ DispatchLoad \/ DispatchAdvance

SpecDispatch == InitDispatch /\ [][NextDispatch]_vars

(***************************************************************************)
(* Spec: the demo.  GGRSDemo::run calls run_lobby, run_connecting or       *)
(* run_game and then waits for the next frame, forever.  The socket and    *)
(* the session are outside the program: peers connect when they like, the  *)
(* session reports any events, answers or fails the query for the network  *)
(* stats, starts running when it likes, and asks for the requests of a     *)
(* frame or of a rollback of one frame.                                    *)
(***************************************************************************)
\* the peers of the room, one per remote player
Peers == 1 .. (NUM_PLAYERS - 1)

\* PlayerType
Local == [type |-> "Local", addr |-> 0]
Remote(addr) == [type |-> "Remote", addr |-> addr]

\* socket.players() when the local player comes l-th: the local player and
\* the peers, in the order of their ids
SocketPlayers(l) ==
    [i \in Handles(NUM_PLAYERS) |->
        IF i = l THEN Local ELSE IF i < l THEN Remote(i + 1) ELSE Remote(i)]

\* sess.handles_by_address(addr): the remote players at that address
handles_by_address(players, addr) ==
    { h \in DOMAIN players : players[h] = Remote(addr) }

\* sess.remote_player_handles(), sess.local_player_handles()
remote_player_handles(players) ==
    { h \in DOMAIN players : players[h].type = "Remote" }
local_player_handles(players) ==
    { h \in DOMAIN players : players[h].type = "Local" }

\* GGRSEvent: the four events run_game acts on, and one of the others
EventTypes == { "Synchronized", "Disconnected", "NetworkInterrupted",
                "NetworkResumed", "WaitRecommendation" }
Events == [type : EventTypes, addr : Peers]

\* the sequences of at most n events
RECURSIVE EventSeqs(_)
EventSeqs(n) ==
    IF n = 0 THEN { << >> }
    ELSE LET shorter == EventSeqs(n - 1)
         IN  shorter \cup { Append(events, event) : events \in shorter, event \in Events }

\* run_game, the match on one event: self.game.connection_info after it
handle_event(info, players, event) ==
    CASE event.type = "Synchronized" ->
            set_connection_status(info, handles_by_address(players, event.addr), "Running")
      [] event.type = "Disconnected" ->
            set_connection_status(info, handles_by_address(players, event.addr), "Disconnected")
      [] event.type = "NetworkInterrupted" ->
            set_connection_status(info, handles_by_address(players, event.addr), "Interrupted")
      [] event.type = "NetworkResumed" ->
            set_connection_status(info, handles_by_address(players, event.addr), "Running")
      [] OTHER -> info

\* run_game, the loop over the events
RECURSIVE handle_events(_, _, _)
handle_events(info, players, events) ==
    IF events = << >> THEN info
    ELSE handle_events(handle_event(info, players, Head(events)), players, Tail(events))

\* Result<NetworkStats, GGRSError>: the two outcomes of a query
Err == [is_ok |-> FALSE]
Ok(value) == [is_ok |-> TRUE, value |-> value]

\* Result::ok: Some(value) of Ok(value), None of an error
ok(result) == IF result.is_ok THEN Some(result.value) ELSE None

\* sess.network_stats(handle): the stats, or an error
StatsResults == { Err, Ok([ping |-> 20]) }

\* a tracker that keeps the stats it has when the query fails
update_stats_keep(info, results) ==
    [h \in DOMAIN info |->
        IF h \in DOMAIN results /\ results[h].is_ok
        THEN [info[h] EXCEPT !.stats = ok(results[h])]
        ELSE info[h]]

\* run_game, update network stats: ok(results[h]) is stored for each remote h
update_stats(info, results) ==
    [h \in DOMAIN info |->
        IF h \in DOMAIN results THEN [info[h] EXCEPT !.stats = ok(results[h])]
        ELSE info[h]]

\* a pacer that runs frames whatever the session's state
always_running(current_state) == TRUE

\* run_game, the test before a frame is run: the session is running
is_running(current_state) == current_state = "Running"

\* n calls of `call`, one after the other
Repeat(call, n) == [i \in 1 .. n |-> call]

\* run_game, the loop over the events: the calls on the session, one
\* sess.handles_by_address(addr) for every event that is acted on
RECURSIVE event_calls(_)
event_calls(events) ==
    IF events = << >> THEN << >>
    ELSE (IF Head(events).type \in { "Synchronized", "Disconnected",
                                      "NetworkInterrupted", "NetworkResumed" }
          THEN << "handles_by_address" >> ELSE << >>)
         \o event_calls(Tail(events))

\* a call of run_game that does not tick the executor after the poll
poll_calls_once == << "try_tick", "poll_remote_clients" >>

\* run_game, communicate, receive and send packets
poll_calls == << "try_tick", "poll_remote_clients", "try_tick" >>

\* run_game up to the test of sess.current_state(): the calls on the
\* executor and the session
run_game_calls(players, events) ==
    poll_calls \o << "events" >> \o event_calls(events)
       \o << "remote_player_handles" >>
       \o Repeat("network_stats", Cardinality(remote_player_handles(players)))
       \o << "current_state" >>

\* run_game, an iteration of the while loop up to the match: the calls on
\* the session
iteration_calls(players) ==
    << "local_player_handles" >>
       \o Repeat("add_local_input", Cardinality(local_player_handles(players)))
       \o << "advance_frame" >>

\* next_frame().await: the clock moves on
NextFrame ==
    \E tick \in {ShortTick, LongTick} :
        /\ now + tick <= MaxTime
        /\ now' = now + tick

\* GGRSDemo::run_lobby
RunLobby ==
    /\ pc = "run" /\ state = "Lobby" /\ ~panicked
    /\ socket' = Some([connected_peers |-> {}])
    /\ state' = "Connecting"
    /\ NextFrame
    /\ UNCHANGED << gameVars, cells, request, panicked, session, last_update,
                    accumulator, frame_skipped, fps_delta, requests, delta,
                    network_stats, advance_result, calls, pc >>

\* a run_connecting that starts the session without resetting the time
\* variables
RunConnecting_stale ==
    /\ pc = "run" /\ state = "Connecting" /\ ~panicked
    /\ IF socket = None
       THEN \* expect("Should only be in connecting state ...") fails
            /\ panicked' = TRUE
            /\ UNCHANGED << gameVars, cells, request, demoVars >>
       ELSE \E peers \in SUBSET Peers :
              /\ unwrap(socket).connected_peers \subseteq peers
              /\ IF Cardinality(peers) >= NUM_PLAYERS - 1
                 THEN \E l \in Handles(NUM_PLAYERS) :
                        LET players == SocketPlayers(l)
                            game    == Game_new(NUM_PLAYERS)
                        IN  /\ game_state' = game.game_state
                            /\ last_checksum' = game.last_checksum
                            /\ periodic_checksum' = game.periodic_checksum
                            /\ connection_info' =
                                  set_connection_status(game.connection_info,
                                      local_player_handles(players), "Local")
                            /\ state' = "Game"
                            /\ session' = Some([players       |-> players,
                                                current_state |-> "Synchronizing"])
                            /\ socket' = None
                            /\ frame_skipped' \in BOOLEAN
                            /\ UNCHANGED << last_update, accumulator >>
                            /\ calls' = << "try_tick", "start_p2p_session" >>
                 ELSE /\ socket' = Some([connected_peers |-> peers])
                      /\ calls' = << "try_tick" >>
                      /\ UNCHANGED << gameVars, state, session, last_update,
                                      accumulator, frame_skipped >>
              /\ NextFrame
              /\ UNCHANGED << cells, request, panicked, fps_delta, requests, delta,
                              network_stats, advance_result, pc >>

\* GGRSDemo::run_connecting
RunConnecting ==
    /\ pc = "run" /\ state = "Connecting" /\ ~panicked
    /\ IF socket = None
       THEN \* expect("Should only be in connecting state ...") fails
            /\ panicked' = TRUE
            /\ UNCHANGED << gameVars, cells, request, demoVars >>
       ELSE \E peers \in SUBSET Peers :
              /\ unwrap(socket).connected_peers \subseteq peers
              /\ IF Cardinality(peers) >= NUM_PLAYERS - 1
                 THEN \E l \in Handles(NUM_PLAYERS) :
                        LET players == SocketPlayers(l)
                            game    == Game_new(NUM_PLAYERS)
                        IN  /\ game_state' = game.game_state
                            /\ last_checksum' = game.last_checksum
                            /\ periodic_checksum' = game.periodic_checksum
                            /\ connection_info' =
                                  set_connection_status(game.connection_info,
                                      local_player_handles(players), "Local")
                            /\ state' = "Game"
                            /\ session' = Some([players       |-> players,
                                                current_state |-> "Synchronizing"])
                            /\ socket' = None
                            /\ frame_skipped' \in BOOLEAN
                            /\ last_update' = now
                            /\ accumulator' = 0
                            /\ calls' = << "try_tick", "start_p2p_session" >>
                 ELSE /\ socket' = Some([connected_peers |-> peers])
                      /\ calls' = << "try_tick" >>
                      /\ UNCHANGED << gameVars, state, session, last_update,
                                      accumulator, frame_skipped >>
              /\ NextFrame
              /\ UNCHANGED << cells, request, panicked, fps_delta, requests, delta,
                              network_stats, advance_result, pc >>

\* a pacer that samples the clock in the calls that find the session not
\* running as well
RunGame_refresh ==
    /\ pc = "run" /\ state = "Game" /\ ~panicked
    /\ IF session = None
       THEN \* expect("Should only be in game state ...") fails
            /\ panicked' = TRUE
            /\ UNCHANGED << gameVars, cells, request, demoVars >>
       ELSE LET sess == unwrap(session) IN
            \E events \in EventSeqs(MaxEvents),
               results \in [remote_player_handles(sess.players) -> StatsResults],
               current_state \in {sess.current_state, "Running"} :
              /\ connection_info' =
                    update_stats(handle_events(connection_info, sess.players, events),
                                 results)
              /\ network_stats' = results
              /\ session' = Some([sess EXCEPT !.current_state = current_state])
              /\ calls' = run_game_calls(sess.players, events)
                            \o IF is_running(current_state)
                               THEN << "frames_ahead" >>
                               ELSE \* self.game.render(), and the last tick
                                    << "try_tick" >>
              /\ IF is_running(current_state)
                 THEN /\ \E frames_ahead \in {0, 1} :
                            fps_delta' = IF frames_ahead > 0 THEN SLOW_FRAME_TIME
                                         ELSE FRAME_TIME
                      /\ delta' = now - last_update
                      /\ accumulator' = accumulator + (now - last_update)
                      /\ last_update' = now
                      /\ pc' = "while"
                      /\ UNCHANGED now
                 ELSE /\ NextFrame
                      /\ last_update' = now
                      /\ UNCHANGED << fps_delta, delta, accumulator, pc >>
              /\ UNCHANGED << game_state, last_checksum, periodic_checksum, cells,
                              request, panicked, state, socket, frame_skipped,
                              requests, advance_result >>

\* GGRSDemo::run_game up to the while loop: poll, events, network stats,
\* and the accumulation of time if the session is running
RunGame ==
    /\ pc = "run" /\ state = "Game" /\ ~panicked
    /\ IF session = None
       THEN \* expect("Should only be in game state ...") fails
            /\ panicked' = TRUE
            /\ UNCHANGED << gameVars, cells, request, demoVars >>
       ELSE LET sess == unwrap(session) IN
            \E events \in EventSeqs(MaxEvents),
               results \in [remote_player_handles(sess.players) -> StatsResults],
               current_state \in {sess.current_state, "Running"} :
              /\ connection_info' =
                    update_stats(handle_events(connection_info, sess.players, events),
                                 results)
              /\ network_stats' = results
              /\ session' = Some([sess EXCEPT !.current_state = current_state])
              /\ calls' = run_game_calls(sess.players, events)
                            \o IF is_running(current_state)
                               THEN << "frames_ahead" >>
                               ELSE \* self.game.render(), and the last tick
                                    << "try_tick" >>
              /\ IF is_running(current_state)
                 THEN /\ \E frames_ahead \in {0, 1} :
                            fps_delta' = IF frames_ahead > 0 THEN SLOW_FRAME_TIME
                                         ELSE FRAME_TIME
                      /\ delta' = now - last_update
                      /\ accumulator' = accumulator + (now - last_update)
                      /\ last_update' = now
                      /\ pc' = "while"
                      /\ UNCHANGED now
                 ELSE /\ NextFrame
                      /\ UNCHANGED << fps_delta, delta, accumulator, last_update, pc >>
              /\ UNCHANGED << game_state, last_checksum, periodic_checksum, cells,
                              request, panicked, state, socket, frame_skipped,
                              requests, advance_result >>

\* the cell the session keeps the state of a frame in
cell_of(frame) == frame % Cardinality(Cells)

\* the inputs the session passes for a frame: the local player thrusts and
\* turns right; a remote player breaks and turns left, or its input has not
\* arrived
SessionInputs(players, frame) ==
    { [i \in DOMAIN players |->
          IF players[i].type = "Local"
          THEN [frame |-> frame, inp |-> INPUT_UP + INPUT_RIGHT]
          ELSE remote_input] :
      remote_input \in { [frame |-> frame, inp |-> INPUT_DOWN + INPUT_LEFT],
                         [frame |-> NULL_FRAME, inp |-> 0] } }

\* Ok(requests) of sess.advance_frame(): save the current frame and advance;
\* or first roll back to the frame before, if the session still has it,
\* and advance over it again with the remote input that has arrived
SessionRequests(players) ==
    LET frame == game_state.frame
        back  == frame - 1
    IN  { << SaveGameState(cell_of(frame), frame), AdvanceFrame(inputs) >> :
             inputs \in SessionInputs(players, frame) }
        \cup
        IF back >= 0 /\ cells[cell_of(back)].frame = back
        THEN { << LoadGameState(cell_of(back), back), AdvanceFrame(again),
                  SaveGameState(cell_of(frame), frame), AdvanceFrame(inputs) >> :
                  again \in { a \in SessionInputs(players, back) :
                                 \A i \in DOMAIN players : a[i].frame = back },
                  inputs \in SessionInputs(players, frame) }
        ELSE {}

\* a pacer whose iterations take the base step, whatever the step of the call
WhileAdvance_base ==
    /\ pc = "while" /\ ~panicked
    /\ accumulator > fps_delta
    /\ accumulator' = accumulator - FRAME_TIME
    /\ \E reqs \in SessionRequests(unwrap(session).players) : requests' = reqs
    /\ advance_result' = "Ok"
    /\ calls' = calls \o iteration_calls(unwrap(session).players)
    /\ pc' = "requests"
    /\ UNCHANGED << gameVars, cells, request, panicked, state, socket, session,
                    last_update, frame_skipped, fps_delta, delta, network_stats,
                    now >>

\* run_game, an iteration of the while loop whose sess.advance_frame() is
\* Ok(requests): handle_requests starts on the requests
WhileAdvance ==
    /\ pc = "while" /\ ~panicked
    /\ accumulator > fps_delta
    /\ accumulator' = accumulator - fps_delta
    /\ \E reqs \in SessionRequests(unwrap(session).players) : requests' = reqs
    /\ advance_result' = "Ok"
    /\ calls' = calls \o iteration_calls(unwrap(session).players)
    /\ pc' = "requests"
    /\ UNCHANGED << gameVars, cells, request, panicked, state, socket, session,
                    last_update, frame_skipped, fps_delta, delta, network_stats,
                    now >>

\* a pacer that leaves frame_skipped as it is after handle_requests
HandleRequests_keep ==
    /\ pc = "requests"
    /\ requests # << >>
    /\ handle_request(Head(requests))
    /\ requests' = Tail(requests)
    /\ pc' = IF Tail(requests) = << >> THEN "while" ELSE "requests"
    /\ UNCHANGED << state, socket, session, last_update, accumulator,
                    frame_skipped, fps_delta, delta, network_stats,
                    advance_result, calls, now >>

\* handle_requests, one iteration of its loop; after the last request
\* frame_skipped is cleared and the while loop of run_game goes on
HandleRequests ==
    /\ pc = "requests"
    /\ requests # << >>
    /\ handle_request(Head(requests))
    /\ requests' = Tail(requests)
    /\ pc' = IF Tail(requests) = << >> THEN "while" ELSE "requests"
    /\ frame_skipped' = IF Tail(requests) = << >> /\ ~panicked' THEN FALSE
                        ELSE frame_skipped
    /\ UNCHANGED << state, socket, session, last_update, accumulator,
                    fps_delta, delta, network_stats, advance_result, calls, now >>

\* a pacer for which Err(PredictionThreshold) is as fatal as any other error
WhileSkip_fatal ==
    /\ pc = "while" /\ ~panicked
    /\ accumulator > fps_delta
    /\ accumulator' = accumulator - fps_delta
    /\ advance_result' = "PredictionThreshold"
    /\ calls' = calls \o iteration_calls(unwrap(session).players)
    /\ panicked' = TRUE
    /\ UNCHANGED << gameVars, cells, request, state, socket, session,
                    last_update, frame_skipped, fps_delta, requests, delta,
                    network_stats, pc, now >>

\* run_game, an iteration of the while loop whose sess.advance_frame() is
\* Err(PredictionThreshold)
WhileSkip ==
    /\ pc = "while" /\ ~panicked
    /\ accumulator > fps_delta
    /\ accumulator' = accumulator - fps_delta
    /\ advance_result' = "PredictionThreshold"
    /\ calls' = calls \o iteration_calls(unwrap(session).players)
    /\ frame_skipped' = TRUE
    /\ UNCHANGED << gameVars, cells, request, panicked, state, socket, session,
                    last_update, fps_delta, requests, delta, network_stats, pc,
                    now >>

\* run_game, an iteration of the while loop whose sess.advance_frame() is
\* another error
WhileFail ==
    /\ pc = "while" /\ ~panicked
    /\ accumulator > fps_delta
    /\ accumulator' = accumulator - fps_delta
    /\ advance_result' = "Other"
    /\ calls' = calls \o iteration_calls(unwrap(session).players)
    /\ panicked' = TRUE
    /\ UNCHANGED << gameVars, cells, request, state, socket, session,
                    last_update, frame_skipped, fps_delta, requests, delta,
                    network_stats, pc, now >>

\* run_game, the end of the while loop: self.game.render(), and the last
\* tick of the executor
WhileExit ==
    /\ pc = "while" /\ ~panicked
    /\ ~(accumulator > fps_delta)
    /\ calls' = Append(calls, "try_tick")
    /\ pc' = "run"
    /\ NextFrame
    /\ UNCHANGED << gameVars, cells, request, panicked, state, socket, session,
                    last_update, accumulator, frame_skipped, fps_delta, requests,
                    delta, network_stats, advance_result >>

Init ==
    /\ InitFields(Game_new(NUM_PLAYERS))
    /\ frame_skipped \in BOOLEAN

Next ==
    \/ RunLobby
    \/ RunConnecting
    \/ RunGame
    \/ WhileAdvance
    \/ HandleRequests
    \/ WhileSkip
    \/ WhileFail
    \/ WhileExit

Spec == Init /\ [][Next]_vars

(***************************************************************************)
(* Properties of the request handlers (SpecDispatch)                       *)
(***************************************************************************)
\* a step that handled a request of the given type: handle_request leaves
\* the request in `request`
Handled(type) == request'.type = type /\ vars' # vars

\* C2: Saving the state and loading it back restores exactly what was
\* saved.  A handled Save stores the current simulation state in its cell
\* and leaves the state alone, an Advance leaves the cells alone, a handled
\* Load makes the simulation state the one its cell holds; a Load that
\* follows a Save of the same cell leaves the simulation state as it was.
C2_SaveLoadRoundTrip ==
    [][ /\ (request'.type = "SaveGameState" /\ ~panicked')
            => /\ cells'[request'.cell].data = Some(game_state)
               /\ game_state' = game_state
        /\ request'.type = "AdvanceFrame" => cells' = cells
        /\ (request'.type = "LoadGameState" /\ ~panicked')
            => game_state' = unwrap(cells[request'.cell].data)
        /\ ( /\ request.type = "SaveGameState"
             /\ request'.type = "LoadGameState"
             /\ request'.cell = request.cell
             /\ ~panicked' )
            => game_state' = game_state ]_vars

\* C2 witness: a state saved at an earlier frame has been loaded back after
\* the game had moved on
C2_Witness ==
    /\ request.type = "LoadGameState"
    /\ ~panicked
    /\ last_checksum[1] > game_state.frame
    /\ cells[request.cell].data = Some(game_state)
    /\ game_state.velocities # State_new(NUM_PLAYERS).velocities

\* C4: A Save whose frame is not the current frame is fatal and writes
\* nothing.  A Save of the current frame writes to its cell the frame, a
\* copy of the simulation state and the Fletcher-16 checksum of the
\* serialized state, and changes neither the simulation state nor the
\* checksum records.
C4_SavePrecondition ==
    [][ request'.type = "SaveGameState" =>
          IF game_state.frame # request'.frame
          THEN panicked' /\ cells' = cells
          ELSE /\ ~panicked'
               /\ cells' = [cells EXCEPT ![request'.cell] =
                              [frame    |-> request'.frame,
                               data     |-> Some(game_state),
                               checksum |-> fletcher16(serialize(game_state))]]
               /\ game_state' = game_state
               /\ last_checksum' = last_checksum
               /\ periodic_checksum' = periodic_checksum ]_vars

\* C4 witness: a Save of another frame than the current one has been fatal,
\* over a cell that holds an earlier save
C4_Witness ==
    /\ panicked
    /\ request.type = "SaveGameState"
    /\ request.frame # game_state.frame
    /\ cells[request.cell].data # None

\* C5 as stated: a Load retrieves the entry stored under the requested
\* frame, so that after a successful Load the frame counter equals that
\* frame.
C5_LoadRequestedFrame ==
    [][ request'.type = "LoadGameState" =>
          IF cells[request'.cell].data = None
          THEN panicked'
          ELSE /\ ~panicked'
               /\ game_state' = unwrap(cells[request'.cell].data)
               /\ game_state'.frame = request'.frame ]_vars

\* C5: A Load does not look at the frame of the request.  It is fatal, and
\* changes nothing, if its cell holds no saved state; otherwise it replaces
\* the whole simulation state with the state the cell holds, and the frame
\* counter becomes the frame the cell was saved under.
C5_LoadContract ==
    [][ request'.type = "LoadGameState" =>
          IF cells[request'.cell].data = None
          THEN panicked' /\ game_state' = game_state
          ELSE /\ ~panicked'
               /\ game_state' = unwrap(cells[request'.cell].data)
               /\ game_state'.frame = cells[request'.cell].frame ]_vars

\* C5 witness: a Load has succeeded whose frame is not the frame of the
\* state it loaded
C5_Witness ==
    /\ request.type = "LoadGameState"
    /\ ~panicked
    /\ request.frame # game_state.frame
    /\ game_state.frame = cells[request.cell].frame

\* C6: Every handled Advance increments the frame counter by one and
\* records (new frame, checksum of the new state) as the latest checksum;
\* the periodic checksum becomes that pair exactly when the new frame is a
\* multiple of CHECKSUM_PERIOD and is unchanged otherwise.
C6_ChecksumBookkeeping ==
    [][ Handled("AdvanceFrame") =>
          \A new_state \in {game_state'} :
             /\ new_state.frame = game_state.frame + 1
             /\ last_checksum' = << new_state.frame,
                                    fletcher16(serialize(new_state)) >>
             /\ periodic_checksum' = IF new_state.frame % CHECKSUM_PERIOD = 0
                                     THEN last_checksum'
                                     ELSE periodic_checksum ]_vars

\* C6 witness: the advance to frame CHECKSUM_PERIOD has recorded the
\* periodic checksum
C6_Witness ==
    /\ request.type = "AdvanceFrame"
    /\ game_state.frame = CHECKSUM_PERIOD
    /\ periodic_checksum = << CHECKSUM_PERIOD, checksum_of(game_state) >>
    /\ last_checksum = periodic_checksum

PlayerOf(s, i) ==
    [pos |-> s.positions[i], vel |-> s.velocities[i], rot |-> s.rotations[i]]

\* an input of key mask `keys` that arrived for the frame being advanced
Arrived(keys) == [frame |-> game_state.frame, inp |-> keys]

\* the players of the Advance being handled whose input is missing
Missing == { i \in Handles(game_state.num_players) :
                request'.inputs[i].frame = NULL_FRAME }

\* C3 as stated: a player whose input is missing is advanced exactly as if
\* the player had supplied INPUT_RIGHT.
C3_MissingIsRight ==
    [][ Handled("AdvanceFrame") =>
          \A i \in Missing :
             PlayerOf(game_state', i) =
                advance_player(game_state, i, Arrived(INPUT_RIGHT)) ]_vars

\* C3: A player whose input is missing is advanced exactly as if the
\* player had supplied INPUT_LEFT (the literal 4), whatever the blank input
\* holds: the player turns by ROTATION_SPEED towards lower angles.
C3_MissingIsLeft ==
    [][ Handled("AdvanceFrame") =>
          \A i \in Missing :
             /\ PlayerOf(game_state', i) =
                   advance_player(game_state, i, Arrived(INPUT_LEFT))
             /\ game_state'.rotations[i] =
                   (game_state.rotations[i] - ROTATION_SPEED) % TWO_PI ]_vars

\* C3 witness: a player that was moving has been advanced with its input
\* missing
C3_Witness ==
    /\ request.type = "AdvanceFrame"
    /\ \E i \in Handles(game_state.num_players) :
          /\ request.inputs[i].frame = NULL_FRAME
          /\ game_state.velocities[i] # << 0, 0 >>
          /\ game_state.rotations[i] # State_new(game_state.num_players).rotations[i]

\* C8: Every player's position stays inside the arena on both axes.
C8_PositionBounds ==
    \A i \in Handles(game_state.num_players) :
       /\ 0 <= game_state.positions[i][1]
       /\ game_state.positions[i][1] <= ARENA_WIDTH
       /\ 0 <= game_state.positions[i][2]
       /\ game_state.positions[i][2] <= ARENA_HEIGHT

\* C8 witness: players are held at an upper and at a lower border while
\* their velocity points out of the arena
C8_Witness ==
    /\ \E i \in Handles(game_state.num_players) :
          \/ game_state.positions[i][1] = ARENA_WIDTH /\ game_state.velocities[i][1] > 0
          \/ game_state.positions[i][2] = ARENA_HEIGHT /\ game_state.velocities[i][2] > 0
    /\ \E i \in Handles(game_state.num_players) :
          \/ game_state.positions[i][1] = 0 /\ game_state.velocities[i][1] < 0
          \/ game_state.positions[i][2] = 0 /\ game_state.velocities[i][2] < 0

\* the keys State::advance acts on for player i in the Advance being handled
Keys(i) == resolve_input(request'.inputs[i])

\* exactly one of the two keys is down
OneOf(keys, a, b) == Down(keys, a) # Down(keys, b)

\* C9: With both up and down held a player gets no thrust, its velocity is
\* the old one times FRICTION; with both left and right held its rotation
\* is unchanged.  The rotation changes iff exactly one of left and right is
\* held, and thrust is applied iff exactly one of up and down is held.
C9_InputCancellation ==
    [][ Handled("AdvanceFrame") =>
          \A i \in Handles(game_state.num_players) :
             /\ (Down(Keys(i), INPUT_UP) /\ Down(Keys(i), INPUT_DOWN))
                 => game_state'.velocities[i] = slow_down(game_state.velocities[i])
             /\ (Down(Keys(i), INPUT_LEFT) /\ Down(Keys(i), INPUT_RIGHT))
                 => game_state'.rotations[i] = game_state.rotations[i]
             /\ game_state'.rotations[i] # game_state.rotations[i]
                 <=> OneOf(Keys(i), INPUT_LEFT, INPUT_RIGHT)
             /\ game_state'.velocities[i] # limit_speed(slow_down(game_state.velocities[i]))
                 <=> OneOf(Keys(i), INPUT_UP, INPUT_DOWN) ]_vars

\* C9 witness: a moving player has been advanced with all four keys held
C9_Witness ==
    /\ request.type = "AdvanceFrame"
    /\ \E i \in Handles(game_state.num_players) :
          /\ request.inputs[i] = [frame |-> game_state.frame - 1, inp |-> 15]
          /\ game_state.velocities[i] # << 0, 0 >>
          /\ game_state.rotations[i] # State_new(game_state.num_players).rotations[i]

(***************************************************************************)
(* Properties of the demo (Spec)                                           *)
(***************************************************************************)
\* C10: A player whose connection status was set to Local at the start of
\* the session keeps the status Local for the rest of the session,
\* whatever events are processed; the players with status Local are the
\* local players of the session.
C10_LocalIsPermanent ==
    [][ state = "Game" =>
          \A h \in DOMAIN connection_info :
             /\ connection_info[h].status = "Local"
                 => connection_info'[h].status = "Local"
             /\ connection_info[h].status = "Local"
                 <=> h \in local_player_handles(unwrap(session).players) ]_vars

\* C10 witness: the game is running, events have taken a remote player
\* through to Interrupted, and the local player's status is Local
C10_Witness ==
    /\ state = "Game"
    /\ game_state.frame > 0
    /\ \E h \in DOMAIN connection_info : connection_info[h].status = "Local"
    /\ \E h \in DOMAIN connection_info : connection_info[h].status = "Interrupted"

\* the status the connection tracker shows for player h
StatusOf(h) == connection_info[h].status

\* C11: Once a player's status is Disconnected it remains Disconnected for
\* the rest of the session, whatever synchronized, network-interrupted or
\* network-resumed events name that player later.
C11_DisconnectedIsTerminal ==
    [][ state = "Game" =>
          \A h \in DOMAIN connection_info :
             StatusOf(h) = "Disconnected"
                => connection_info'[h].status = "Disconnected" ]_vars

\* the transitions the tracker is specified to take for a remote player:
\* << status before, event, status after >>
SpecifiedTransitions ==
    { << "Synchronizing", "Synchronized", "Running" >>,
      << "Running", "NetworkInterrupted", "Interrupted" >>,
      << "Interrupted", "NetworkResumed", "Running" >> }
    \cup { << from, "Disconnected", "Disconnected" >> :
              from \in { "Synchronizing", "Running", "Interrupted", "Disconnected" } }

\* C12: The connection tracker takes only the specified transitions for a
\* remote player: whatever event the session reports next, handling it
\* either leaves the player's status as it is or takes one of the
\* specified transitions; in particular no event takes a player from
\* Synchronizing to Interrupted, and a network-resumed event does not take
\* a player from Synchronizing to Running.
C12_OnlySpecifiedTransitions ==
    state = "Game" =>
       \A event \in Events :
          \A h \in remote_player_handles(unwrap(session).players) :
             LET after == handle_event(connection_info, unwrap(session).players,
                                       event)[h].status
             IN  \/ after = StatusOf(h)
                 \/ << StatusOf(h), event.type, after >> \in SpecifiedTransitions

\* a step that is a call of run_game up to its while loop
RunGameStep == state = "Game" /\ pc = "run" /\ (pc' # pc \/ now' # now)

\* C13 as stated: when the network-statistics query for a remote player
\* fails, the statistics cached for that player stay as they were, and the
\* process goes on.
C13_FailureKeepsCache ==
    [][ RunGameStep =>
          /\ ~panicked'
          /\ \A h \in DOMAIN network_stats' :
                ~network_stats'[h].is_ok
                   => connection_info'[h].stats = connection_info[h].stats ]_vars

\* C13, amended: after each call of run_game the statistics cached for a
\* remote player are those of the call's query: its value when the query
\* succeeded, none when it failed; and a failed query does not stop the
\* process.
C13_CacheIsLastQuery ==
    [][ RunGameStep =>
          /\ ~panicked'
          /\ DOMAIN network_stats' = remote_player_handles(unwrap(session).players)
          /\ \A h \in DOMAIN network_stats' :
                connection_info'[h].stats =
                   IF network_stats'[h].is_ok THEN Some(network_stats'[h].value)
                   ELSE None ]_vars

\* a failed query has left a remote player without statistics, and the
\* process has gone on to run frames
C13_Witness ==
    /\ state = "Game" /\ ~panicked
    /\ game_state.frame > 0
    /\ pc = "while"
    /\ \E h \in DOMAIN network_stats :
          /\ ~network_stats[h].is_ok
          /\ connection_info[h].stats = None


\* the state the session reports
SessionState == unwrap(session).current_state

\* C14: No frame executes unless the session is running. A call of run_game
\* that finds the session not running ends without entering the while loop
\* (where local input is submitted and the session is advanced): the
\* simulation state, the checksum records, the saved cells, the accumulated
\* time and the result of the last session advance are as before. The while
\* loop and handle_requests act only on a running session, and the
\* simulation state and checksum records change only then.
C14_NoFrameUnlessRunning ==
    [][ state = "Game" =>
          /\ (RunGameStep /\ unwrap(session').current_state # "Running")
                => /\ pc' = "run"
                   /\ UNCHANGED << game_state, last_checksum, periodic_checksum,
                                   cells, request, requests, advance_result,
                                   accumulator, last_update, frame_skipped >>
          /\ pc' \in { "while", "requests" }
                => unwrap(session').current_state = "Running"
          /\ << game_state, last_checksum, periodic_checksum >>'
                # << game_state, last_checksum, periodic_checksum >>
                => SessionState = "Running" ]_vars

\* a session that is not running yet, whose events and network stats have
\* been processed: a peer is shown interrupted, with stats, and no frame has
\* run
C14_Witness ==
    /\ state = "Game" /\ pc = "run"
    /\ SessionState = "Synchronizing"
    /\ now > last_update + ShortTick
    /\ game_state.frame = 0
    /\ accumulator = 0
    /\ \E h \in DOMAIN connection_info :
          /\ StatusOf(h) = "Interrupted"
          /\ connection_info[h].stats # None


\* a step that is an iteration of the while loop of run_game whose
\* sess.advance_frame() has result `result`
Matched(result) ==
    /\ pc = "while" /\ accumulator' # accumulator
    /\ advance_result' = result

\* a step that ends a successful iteration: the last request is handled
\* and handle_requests returns
Succeeded ==
    /\ pc = "requests" /\ pc' = "while"
    /\ advance_result = "Ok" /\ ~panicked'

\* C15: Prediction-window exhaustion is recoverable. An iteration whose
\* session advance returns PredictionThreshold applies no request (the
\* simulation state, the checksum records and the saved cells are
\* unchanged), sets frame_skipped, and does not stop the process or leave
\* the loop; an iteration whose session advance succeeds applies its
\* requests, the last of which advances the frame, and clears frame_skipped,
\* also after a skipped one; any other error stops the process.
C15_PredictionThresholdRecoverable ==
    [][ /\ Matched("PredictionThreshold")
           => /\ UNCHANGED << gameVars, cells, request, requests >>
              /\ frame_skipped'
              /\ ~panicked' /\ pc' = "while"
        /\ Matched("Ok")
           => /\ requests' # << >> /\ pc' = "requests" /\ ~panicked'
        /\ Succeeded
           => /\ ~frame_skipped'
              /\ request'.type = "AdvanceFrame"
              /\ requests' = << >>
        /\ Matched("Other") => panicked' ]_vars

\* an iteration was skipped, and a later one of the same call has succeeded
\* and cleared the flag: the call has spent two steps of its time, and the
\* frame has advanced once, by the last of them
C15_Witness ==
    /\ state = "Game" /\ pc = "while" /\ ~panicked
    /\ advance_result = "Ok"
    /\ ~frame_skipped
    /\ game_state.frame = 1
    /\ request.type = "AdvanceFrame"
    /\ delta - accumulator >= 2 * fps_delta


\* the frames-ahead signal was set for the call of run_game under way
Slow == fps_delta = SLOW_FRAME_TIME

\* C16 as stated: a successful session advance records a status that tells
\* whether the frames-ahead signal was set: in a tick where it was set the
\* record differs from the one of a normal tick, frame_skipped = FALSE.
C16_StatusTellsSlow ==
    [][ Succeeded => (frame_skipped' = FALSE <=> ~Slow) ]_vars

\* C16, amended: a successful session advance records frame_skipped = FALSE
\* whether the frames-ahead signal was set or not, and a skipped one records
\* frame_skipped = TRUE: the record tells halted from not halted, and
\* nothing else of the pacer's status is recorded (the signal shows only in
\* the step of the call, fps_delta).
C16_StatusTellsHaltedOnly ==
    [][ /\ Succeeded => /\ frame_skipped' = FALSE
                        /\ fps_delta \in { FRAME_TIME, SLOW_FRAME_TIME }
                        /\ UNCHANGED fps_delta
        /\ Matched("PredictionThreshold") => frame_skipped' = TRUE ]_vars

\* a frame has been advanced in a call whose frames-ahead signal was set,
\* and the record is that of a normal call
C16_Witness ==
    /\ state = "Game" /\ pc = "while" /\ ~panicked
    /\ Slow
    /\ advance_result = "Ok"
    /\ request.type = "AdvanceFrame"
    /\ game_state.frame = 2
    /\ frame_skipped = FALSE


\* C17: The catch-up loop has a fixed step. In a running call the step
\* fps_delta is FRAME_TIME, or SLOW_FRAME_TIME (1.1 times FRAME_TIME) when
\* frames_ahead > 0, and stays so through the loop; an iteration is made
\* exactly while accumulator > fps_delta, takes exactly fps_delta from the
\* accumulator, which shrinks and stays positive, and makes one call of
\* sess.advance_frame(); the loop is left exactly when
\* accumulator <= fps_delta, with 0 <= accumulator, so after at most
\* accumulator / fps_delta iterations the loop is left.
C17_FixedStepLoop ==
    [][ /\ pc' = "while" => /\ fps_delta' \in { FRAME_TIME, SLOW_FRAME_TIME }
                             /\ 10 * SLOW_FRAME_TIME = 11 * FRAME_TIME
        /\ (pc = "while" /\ ~panicked)
              => /\ ENABLED WhileAdvance <=> accumulator > fps_delta
                 /\ ENABLED WhileExit => accumulator <= fps_delta
                 /\ accumulator >= 0
        /\ (pc = "while" /\ accumulator' # accumulator)
              => /\ accumulator > fps_delta
                 /\ accumulator' = accumulator - fps_delta
                 /\ accumulator' > 0
                 /\ advance_result' \in { "Ok", "PredictionThreshold", "Other" }
                 /\ UNCHANGED << fps_delta, game_state.frame >>
        /\ (pc = "requests" /\ pc' = "while")
              => game_state'.frame = game_state.frame + 1
        /\ pc \in { "while", "requests" } => UNCHANGED << fps_delta, last_update >>
        /\ (pc = "while" /\ pc' = "run")
              => /\ 0 <= accumulator /\ accumulator <= fps_delta
                 /\ UNCHANGED accumulator ]_vars

\* the loop has been left after two iterations in a call whose step was the
\* longer one, with less than a step of time left
C17_Witness ==
    /\ state = "Game" /\ pc = "run" /\ ~panicked
    /\ Slow
    /\ delta - accumulator >= 2 * SLOW_FRAME_TIME
    /\ accumulator < fps_delta
    /\ game_state.frame >= 1


\* C18: State::advance is total: whatever the state and the inputs, an
\* AdvanceFrame request is handled without the process failing, also when
\* the frame counter is the greatest i32.
C18_AdvanceIsTotal ==
    [][ request'.type = "AdvanceFrame" => ~panicked' ]_vars


\* the velocity State::advance computes for player i in the Advance being
\* handled: the old one after friction, thrust and the speed limit
NewVelocity(i) ==
    limit_speed(thrust(slow_down(game_state.velocities[i]),
                       game_state.rotations[i], Keys(i)))

\* C19: The borders act on the position alone. The velocity stored by an
\* Advance is the one computed from friction, thrust and the speed limit,
\* whatever the position; the position stored is the old position plus that
\* velocity, constrained to the arena. So where the sum lies beyond a
\* border, the position stored is on the border and the velocity stored,
\* the one the next Advance starts from, still points across it.
C19_ClampPositionOnly ==
    [][ Handled("AdvanceFrame") =>
          \A new_state \in {game_state'} :
             \A i \in Handles(game_state.num_players) :
                LET pos  == game_state.positions[i]
                    vel  == new_state.velocities[i]
                    free == << pos[1] + vel[1], pos[2] + vel[2] >>
                IN  /\ vel = NewVelocity(i)
                    /\ new_state.positions[i] = constrain(free)
                    /\ free[1] > ARENA_WIDTH
                          => new_state.positions[i][1] = ARENA_WIDTH /\ vel[1] > 0
                    /\ free[1] < 0
                          => new_state.positions[i][1] = 0 /\ vel[1] < 0
                    /\ free[2] > ARENA_HEIGHT
                          => new_state.positions[i][2] = ARENA_HEIGHT /\ vel[2] > 0
                    /\ free[2] < 0
                          => new_state.positions[i][2] = 0 /\ vel[2] < 0 ]_vars

\* a player thrusting into the lower border for several frames: it is on
\* the border, and the velocity stored is still faster than one frame of
\* thrust into it
C19_Witness ==
    /\ request.type = "AdvanceFrame"
    /\ \E i \in Handles(game_state.num_players) :
          /\ game_state.positions[i][2] = 0
          /\ game_state.velocities[i][2] < 0 - 2 * MOVEMENT_SPEED


\* C20: Time goes on accumulating while the session is not running, and is
\* not capped. A call of run_game that finds the session not running lets
\* the clock go on and leaves last_update and the accumulator as they are;
\* a call that finds it running adds the whole time since last_update, which
\* on the first such call is the time since run_connecting started the
\* session, to the accumulator; and the while loop of that call is left
\* only when less than one step beyond a step is left of it, after one
\* iteration for every step above that.
C20_TimeAccumulatesUncapped ==
    [][ /\ (RunGameStep /\ unwrap(session').current_state # "Running")
              => /\ now' > now
                 /\ UNCHANGED << last_update, accumulator, delta >>
        /\ (RunGameStep /\ unwrap(session').current_state = "Running")
              => /\ delta' = now - last_update
                 /\ accumulator' = accumulator + delta'
                 /\ last_update' = now
                 /\ SessionState # "Running"
                       => accumulator = 0 /\ accumulator' = now - last_update
        /\ (state = "Game" /\ SessionState # "Running")
              => /\ accumulator = 0
                 /\ last_update <= now
        /\ (pc = "while" /\ accumulator' # accumulator)
              => accumulator' = accumulator - fps_delta
        /\ (pc = "while" /\ pc' = "run")
              => accumulator <= fps_delta ]_vars

\* the session was not running for more than the longest tick after it was
\* started; the call that found it running took all of that time as its
\* debt and has run the first two frames from it, one after the other
C20_Witness ==
    /\ state = "Game" /\ pc = "while" /\ ~panicked
    /\ last_update = now
    /\ delta > LongTick
    /\ delta - accumulator >= 2 * fps_delta
    /\ accumulator <= fps_delta
    /\ game_state.frame = 2


\* the places of a sequence of calls that are ticks of the executor
Ticks(seq) == { i \in DOMAIN seq : seq[i] = "try_tick" }

\* C21: The executor is ticked around the session. In every call of
\* run_game the first call is a tick of the executor, the second the poll
\* of the session, the third a tick again; the session is polled nowhere
\* else, and local input is submitted and the session advanced only after
\* the third call; while the loop is under way there is no further tick;
\* the call ends, once all requests are handled, with one more tick, so
\* that every call on the session has a tick before it and a tick after it.
C21_ExecutorTickOrdering ==
    [][ (state = "Game" /\ calls' # calls) =>
          \A seq \in {calls'} :
             /\ Len(seq) >= 3
             /\ seq[1] = "try_tick"
             /\ seq[2] = "poll_remote_clients"
             /\ seq[3] = "try_tick"
             /\ \A i \in DOMAIN seq :
                   /\ seq[i] = "poll_remote_clients" => i = 2
                   /\ seq[i] \in { "add_local_input", "advance_frame" } => i > 3
             /\ pc' \in { "while", "requests" } => Ticks(seq) = { 1, 3 }
             /\ pc' = "run"
                   => /\ requests' = << >>
                      /\ Ticks(seq) = { 1, 3, Len(seq) }
                      /\ Len(seq) > 4
                      /\ \A i \in DOMAIN seq \ Ticks(seq) :
                            /\ \E j \in Ticks(seq) : j < i
                            /\ \E k \in Ticks(seq) : k > i ]_vars

\* a call of run_game has ended that acted on an event and advanced the
\* session twice
C21_Witness ==
    /\ state = "Game" /\ pc = "run" /\ ~panicked
    /\ calls[Len(calls)] = "try_tick"
    /\ Cardinality({ i \in DOMAIN calls : calls[i] = "advance_frame" }) = 2
    /\ Cardinality({ i \in DOMAIN calls : calls[i] = "add_local_input" }) = 2
    /\ \E i \in DOMAIN calls : calls[i] = "handles_by_address"


\* C22: The checksum records are not rolled back. After every Advance the
\* frame of the latest record is the frame of the simulation; a Load, failed
\* or not, leaves both records as they are; the frame of the periodic record
\* is always NULL_FRAME or a multiple of CHECKSUM_PERIOD; and every Advance
\* to a multiple of CHECKSUM_PERIOD, the first or one after a rollback,
\* writes the checksum of the state it has computed to the periodic record.
C22_RecordsNotRolledBack ==
    /\ [](\/ periodic_checksum[1] = NULL_FRAME
          \/ periodic_checksum[1] % CHECKSUM_PERIOD = 0)
    /\ [][ /\ Handled("AdvanceFrame")
              => \A new_state \in {game_state'} :
                    /\ last_checksum'[1] = new_state.frame
                    /\ new_state.frame % CHECKSUM_PERIOD = 0
                          => periodic_checksum' =
                                << new_state.frame, checksum_of(new_state) >>
           /\ Handled("LoadGameState")
              => UNCHANGED << last_checksum, periodic_checksum >> ]_vars

\* after a rollback from frame CHECKSUM_PERIOD and another Advance to it,
\* the periodic record holds another checksum than the one saved with that
\* frame the first time; and the state of an earlier frame has been loaded
\* again, while both records still name frame CHECKSUM_PERIOD
C22_Witness ==
    /\ request.type = "LoadGameState" /\ ~panicked
    /\ game_state.frame < CHECKSUM_PERIOD
    /\ last_checksum[1] = CHECKSUM_PERIOD
    /\ periodic_checksum = last_checksum
    /\ \E cell \in Cells :
          /\ cells[cell].frame = CHECKSUM_PERIOD
          /\ cells[cell].checksum # periodic_checksum[2]


\* the Game run_connecting makes for the session of `players`
StartedGame(players) ==
    [Game_new(NUM_PLAYERS) EXCEPT
        !.connection_info =
            [h \in DOMAIN players |->
                [status |-> IF players[h].type = "Local" THEN "Local"
                            ELSE "Synchronizing",
                 stats  |-> None]]]

\* C23: The demo goes one way and keeps what it needs. The state changes
\* only from Lobby to Connecting and from Connecting to Game. In Lobby there
\* is no socket and no session; in Connecting there is a socket, with
\* fewer than NUM_PLAYERS - 1 peers seen so far, and no session; in Game
\* there is a session and the socket is gone. The step from Connecting to
\* Game starts a session of the local player and NUM_PLAYERS - 1 peers and
\* leaves a new Game, last_update at the time of the step and an
\* accumulator of 0; the steps before it leave the game, last_update and
\* the accumulator as they are.
C23_LifecycleOneWay ==
    /\ [](state = "Lobby" => socket = None /\ session = None)
    /\ [](state = "Connecting"
             => /\ socket # None /\ session = None
                /\ Cardinality(unwrap(socket).connected_peers) < NUM_PLAYERS - 1)
    /\ [](state = "Game" => session # None /\ socket = None)
    /\ [][ /\ state' # state
              => << state, state' >> \in { << "Lobby", "Connecting" >>,
                                           << "Connecting", "Game" >> }
           /\ (state = "Connecting" /\ state' = "Game")
              => \A players \in {unwrap(session').players} :
                    /\ Cardinality({ players[h].addr :
                                        h \in remote_player_handles(players) })
                          >= NUM_PLAYERS - 1
                    /\ Cardinality(local_player_handles(players)) = 1
                    /\ game_state' = StartedGame(players).game_state
                    /\ last_checksum' = StartedGame(players).last_checksum
                    /\ periodic_checksum' = StartedGame(players).periodic_checksum
                    /\ connection_info' = StartedGame(players).connection_info
                    /\ last_update' = now
                    /\ accumulator' = 0
           /\ (state # "Game" /\ state' # "Game")
              => UNCHANGED << gameVars, last_update, accumulator >> ]_vars

\* the session has just been started, after one call of run_connecting
\* that found no peer: the socket is gone and last_update is the time of
\* the start
C23_Witness ==
    /\ state = "Game" /\ pc = "run" /\ ~panicked
    /\ session # None /\ socket = None
    /\ calls = << "try_tick", "start_p2p_session" >>
    /\ last_update = 2 * ShortTick
    /\ now > last_update
    /\ accumulator = 0
    /\ \E h \in DOMAIN connection_info : StatusOf(h) = "Local"

====
